---- MODULE Spec2Model ----
(***************************************************************************)
(* Model of zebra's policy based routing (PBR) rule interaction with the   *)
(* kernel over netlink (zebra/rule_netlink.c):                             *)
(*   - netlink_rule_update: builds the RTM_NEWRULE / RTM_DELRULE request   *)
(*     for a zebra_pbr_rule and ships it with the blocking netlink_talk;   *)
(*   - kernel_add_pbr_rule / kernel_del_pbr_rule: the public install and   *)
(*     uninstall entry points, which report the southbound status;         *)
(*   - netlink_rule_change: the handler of kernel rule notifications;      *)
(*   - netlink_rules_read: the startup read (a no-op).                     *)
(* One action per entry point.  The handlers keep no state of their own,   *)
(* so the state records the last call: its arguments, the requests it      *)
(* handed to netlink_talk, its return value and the callbacks it made.     *)
(* Behaviours are call sequences of any length.                            *)
(***************************************************************************)
EXTENDS Integers, Sequences, FiniteSets, TLC

VARIABLES
    op,                 \* the entry point called last ("none" before any call)
    arg_rule,           \* the rule passed to kernel_add/del_pbr_rule (NoRule otherwise)
    arg_h,              \* the notification passed to netlink_rule_change (NoMsg otherwise)
    arg_ns,             \* the ns_id passed to netlink_rule_change
    sent,               \* the requests the last call handed to netlink_talk, in order
    ret,                \* the last call's return value (netlink_rule_update's for add/del)
    cb_status,          \* kernel_pbr_rule_add_del_status invocations made by the last call
    cb_del,             \* kernel_pbr_rule_del invocations made by the last call
    crashed,            \* the process died (NULL dereference)
    zebra_debug_kernel, \* IS_ZEBRA_DEBUG_KERNEL
    pc,                 \* where zebra's thread is: "idle", "talk" (blocked in
                        \* netlink_talk) or "reply" (netlink_talk has returned)
    in_flight,          \* the requests on the channel the kernel has not answered
    pbrms,              \* pbrd: the pbr-map sequence the vty is in (family, src, dst)
    vty_cmd,            \* pbrd: the command entered last
    vty_ret,            \* pbrd: what that command returned
    vty_name,           \* pbrd: the NAME typed in that command ("" when it has none)
    vty_ifp,            \* pbrd: the interface that command was entered on (NULL when none)
    pbr_ifp,            \* pbrd: for each interface, ifp->info->mapname
    incoming            \* pbrd: for each pbr-map, the interfaces on its list

\* The position of the thread inside an install or uninstall.
talk_vars == <<pc, in_flight>>

\* The state of pbrd's vty.
vty_vars == <<pbrms, vty_cmd, vty_ret, vty_name, vty_ifp, pbr_ifp, incoming>>

\* The interfaces' policies.
policy_vars == <<pbr_ifp, incoming>>

\* The state of zebra.
zebra_vars == <<op, arg_rule, arg_h, arg_ns, sent, ret, cb_status, cb_del,
                crashed, zebra_debug_kernel, talk_vars>>

vars == <<op, arg_rule, arg_h, arg_ns, sent, ret, cb_status, cb_del,
          crashed, zebra_debug_kernel, talk_vars, vty_vars>>

(***************************************************************************)
(* Constants of the netlink protocol and of zebra.                         *)
(***************************************************************************)
AF_INET == 2
AF_INET6 == 10
RTM_NEWRULE == 32
RTM_DELRULE == 33
NLM_F_REQUEST == 1
FR_ACT_TO_TBL == 1
RT_TABLE_UNSPEC == 0
FRA_DST == 1
FRA_SRC == 2
FRA_IFNAME == 3
FRA_PRIORITY == 6
FRA_TABLE == 15
NL_PKT_BUF_SIZE == 8192
NS_DEFAULT == 0
NLMSG_HDRLEN == 16
SizeofFibRuleHdr == 12
SizeofRtmsg == 12
RTA_HDRLEN == 4

NULL == "NULL"
PBR_FILTER_SRC_IP == "PBR_FILTER_SRC_IP"
PBR_FILTER_DST_IP == "PBR_FILTER_DST_IP"
SOUTHBOUND_INSTALL_SUCCESS == "SOUTHBOUND_INSTALL_SUCCESS"
SOUTHBOUND_INSTALL_FAILURE == "SOUTHBOUND_INSTALL_FAILURE"
SOUTHBOUND_DELETE_SUCCESS == "SOUTHBOUND_DELETE_SUCCESS"
SOUTHBOUND_DELETE_FAILURE == "SOUTHBOUND_DELETE_FAILURE"

(***************************************************************************)
(* Data: prefixes, rules, messages.                                        *)
(***************************************************************************)
\* struct prefix: family, prefixlen and the 16-byte address union u.prefix,
\* kept as its first 4 bytes (a4, all of an IPv4 address) and its last 12 (a12).
Prefix(family, prefixlen, a4, a12) ==
    [family |-> family, prefixlen |-> prefixlen, a4 |-> a4, a12 |-> a12]

\* A zeroed struct prefix (memset 0): family AF_UNSPEC.
ZeroPrefix == Prefix(0, 0, 0, 0)
\* 10.0.0.0/24 and 2001:db8::1/64 as the bytes of u.prefix.
PrefixV4 == Prefix(AF_INET, 24, 10, 0)
PrefixV6 == Prefix(AF_INET6, 64, 32, 1)

PREFIX_FAMILY(p) == p.family

\* struct zebra_pbr_rule.
Rule(priority, ifp, filter_bm, src_ip, dst_ip, table) ==
    [priority |-> priority, ifp |-> ifp,
     filter |-> [filter_bm |-> filter_bm, src_ip |-> src_ip, dst_ip |-> dst_ip],
     action |-> [table |-> table]]

\* memset(&rule, 0, sizeof(rule))
ZeroRule == Rule(0, NULL, {}, ZeroPrefix, ZeroPrefix, 0)
\* Placeholder of arg_rule for calls that take no rule.
NoRule == ZeroRule

IS_RULE_FILTERING_ON_SRC_IP(rule) == PBR_FILTER_SRC_IP \in rule.filter.filter_bm
IS_RULE_FILTERING_ON_DST_IP(rule) == PBR_FILTER_DST_IP \in rule.filter.filter_bm

\* struct fib_rule_hdr.
FibRuleHdr(family, dst_len, src_len, table, action) ==
    [family |-> family, dst_len |-> dst_len, src_len |-> src_len,
     table |-> table, action |-> action]

\* A netlink rule message: nlmsghdr, fib_rule_hdr and the attributes that follow.
Msg(type, len, flags, frh, attrs) ==
    [nlmsg_type |-> type, nlmsg_len |-> len, nlmsg_flags |-> flags,
     frh |-> frh, attrs |-> attrs]

NoMsg == Msg(0, 0, 0, FibRuleHdr(0, 0, 0, 0, 0), <<>>)

NLMSG_ALIGN(len) == ((len + 3) \div 4) * 4
NLMSG_LENGTH(len) == len + NLMSG_HDRLEN
RTA_ALIGN(len) == ((len + 3) \div 4) * 4
RTA_LENGTH(len) == RTA_HDRLEN + len

\* sizeof(req): nlmsghdr, fib_rule_hdr and buf[NL_PKT_BUF_SIZE].
SizeofReq == NLMSG_HDRLEN + SizeofFibRuleHdr + NL_PKT_BUF_SIZE

\* addattr_l: appends one attribute unless it would pass maxlen, in which
\* case the message is left as it is (the -1 it returns is not looked at by
\* netlink_rule_update).
addattr_l(n, maxlen, type, data, alen) ==
    LET len == RTA_LENGTH(alen) IN
    IF NLMSG_ALIGN(n.nlmsg_len) + RTA_ALIGN(len) > maxlen
    THEN n
    ELSE [n EXCEPT
            !.attrs = Append(@, [rta_type |-> type, rta_len |-> len, data |-> data]),
            !.nlmsg_len = NLMSG_ALIGN(n.nlmsg_len) + RTA_ALIGN(len)]

addattr32(n, maxlen, type, data) == addattr_l(n, maxlen, type, <<data>>, 4)

\* The first bytelen bytes of a prefix's address union.
PrefixBytes(p, bytelen) == IF bytelen = 4 THEN <<p.a4>> ELSE <<p.a4, p.a12>>

\* The bytes of an interface's name (struct interface, name[]) with the
\* terminating NUL: "eth0" and "eth1".
NameBytes(ifp) ==
    IF ifp = "eth0" THEN <<101, 116, 104, 48, 0>> ELSE <<101, 116, 104, 49, 0>>

\* strlen(name) + 1
StrlenPlus1(ifp) == Len(NameBytes(ifp))

(***************************************************************************)
(* netlink_rule_update: form the netlink message and ship it.              *)
(***************************************************************************)
\* What netlink_talk can return: 0 when the kernel acknowledges the request,
\* -1 when the exchange fails or the kernel answers with an error.
TalkResults == {0, -1}

\* family = PREFIX_FAMILY(&rule->filter.src_ip)
RequestFamily(rule) == PREFIX_FAMILY(rule.filter.src_ip)

\* An address length with the two sizes exchanged.
RequestBytelen_swapped(family) == IF family = AF_INET THEN 16 ELSE 4

\* bytelen = (family == AF_INET ? 4 : 16)
RequestBytelen(family) == IF family = AF_INET THEN 4 ELSE 16

\* A request header that names the action only when a rule is added.
RequestHeader_addonly(cmd, family) ==
    Msg(cmd, NLMSG_LENGTH(SizeofRtmsg), NLM_F_REQUEST,
        FibRuleHdr(family % 256, 0, 0, 0,
                   IF cmd = RTM_NEWRULE THEN FR_ACT_TO_TBL ELSE 0), <<>>)

\* The request before any attribute: the zeroed headers with the type, the
\* length, the flags, the family and the action set.
RequestHeader(cmd, family) ==
    Msg(cmd, NLMSG_LENGTH(SizeofRtmsg), NLM_F_REQUEST,
        FibRuleHdr(family % 256, 0, 0, 0, FR_ACT_TO_TBL), <<>>)

\* A priority that is written only for a rule bound to an interface.
AddPriority_ifbound(req, rule) ==
    IF rule.ifp # NULL
    THEN addattr32(req, SizeofReq, FRA_PRIORITY, rule.priority)
    ELSE req

\* rule's pref #
AddPriority(req, rule) == addattr32(req, SizeofReq, FRA_PRIORITY, rule.priority)

\* interface on which applied
AddIfname(req, rule) ==
    IF rule.ifp # NULL
    THEN addattr_l(req, SizeofReq, FRA_IFNAME, NameBytes(rule.ifp),
                   StrlenPlus1(rule.ifp))
    ELSE req

\* source IP, if specified
AddSrc(req, rule, bytelen) ==
    IF IS_RULE_FILTERING_ON_SRC_IP(rule)
    THEN addattr_l([req EXCEPT !.frh.src_len = rule.filter.src_ip.prefixlen % 256],
                   SizeofReq, FRA_SRC,
                   PrefixBytes(rule.filter.src_ip, bytelen), bytelen)
    ELSE req

\* destination IP, if specified
AddDst(req, rule, bytelen) ==
    IF IS_RULE_FILTERING_ON_DST_IP(rule)
    THEN addattr_l([req EXCEPT !.frh.dst_len = rule.filter.dst_ip.prefixlen % 256],
                   SizeofReq, FRA_DST,
                   PrefixBytes(rule.filter.dst_ip, bytelen), bytelen)
    ELSE req

\* A table encoder that takes 256 for a table of the header byte.
SetTable_le256(req, rule) ==
    IF rule.action.table <= 256
    THEN [req EXCEPT !.frh.table = rule.action.table % 256]
    ELSE addattr32([req EXCEPT !.frh.table = RT_TABLE_UNSPEC],
                   SizeofReq, FRA_TABLE, rule.action.table)

\* Route table to use to forward, if filter criteria matches.
SetTable(req, rule) ==
    IF rule.action.table < 256
    THEN [req EXCEPT !.frh.table = rule.action.table % 256]
    ELSE addattr32([req EXCEPT !.frh.table = RT_TABLE_UNSPEC],
                   SizeofReq, FRA_TABLE, rule.action.table)

\* The request netlink_rule_update builds for cmd and rule.
RuleRequest(cmd, rule) ==
    LET family == RequestFamily(rule)
        bytelen == RequestBytelen(family)
    IN SetTable(
         AddDst(
           AddSrc(
             AddIfname(
               AddPriority(RequestHeader(cmd, family), rule),
               rule),
             rule, bytelen),
           rule, bytelen),
         rule)

\* netlink_rule_update(cmd, rule): the request handed to netlink_talk and the
\* value returned, which is netlink_talk's (talk).
netlink_rule_update(cmd, rule, talk) ==
    [req |-> RuleRequest(cmd, rule), ret |-> talk]

\* A status choice that lost the negation of ret.
InstallStatus_noneg(r) ==
    IF r # 0 THEN SOUTHBOUND_INSTALL_SUCCESS ELSE SOUTHBOUND_INSTALL_FAILURE

\* The status kernel_add_pbr_rule reports for netlink_rule_update's return value.
InstallStatus(r) ==
    IF r = 0 THEN SOUTHBOUND_INSTALL_SUCCESS ELSE SOUTHBOUND_INSTALL_FAILURE

\* The status kernel_del_pbr_rule reports for netlink_rule_update's return value.
DeleteStatus(r) ==
    IF r = 0 THEN SOUTHBOUND_DELETE_SUCCESS ELSE SOUTHBOUND_DELETE_FAILURE

\* kernel_pbr_rule_add_del_status(rule, status), as the owner sees it.
StatusCall(rule, status) == [rule |-> rule, status |-> status]

(***************************************************************************)
(* The rules the owner installs and uninstalls.                            *)
(***************************************************************************)
\* A filter field with its bit: set to an IPv4 or an IPv6 prefix, or not set
\* and zeroed.
FilterFields == {<<TRUE, PrefixV4>>, <<TRUE, PrefixV6>>, <<FALSE, ZeroPrefix>>}

\* Every combination of interface, src and dst, for each table, at one of
\* two priorities.
Rules ==
    { Rule(prio_table[1], ifp,
           (IF s[1] THEN {PBR_FILTER_SRC_IP} ELSE {}) \cup
           (IF d[1] THEN {PBR_FILTER_DST_IP} ELSE {}),
           s[2], d[2], prio_table[2]) :
        prio_table \in {<<300, 5>>, <<1, 255>>, <<300, 256>>, <<1, 1000>>},
        ifp \in {NULL, "eth0"},
        s \in FilterFields, d \in FilterFields }

(***************************************************************************)
(* netlink_rule_change: handle a netlink notification of a rule add or     *)
(* delete.                                                                 *)
(***************************************************************************)
\* An attribute slot of tb[] that netlink_parse_rtattr left NULL.
NoAttr == [rta_type |-> 0, rta_len |-> 0, data |-> <<>>]
AttrPresent(a) == a.rta_type # 0

\* The attribute types netlink_rule_change reads from tb[].
AttrTypes == {FRA_DST, FRA_SRC, FRA_IFNAME, FRA_PRIORITY, FRA_TABLE}

\* netlink_parse_rtattr(tb, max, rta, len): walks the attributes that lie
\* within len bytes and stores each under its type, a later one replacing an
\* earlier one of the same type.
RECURSIVE ParseFrom(_, _, _, _)
ParseFrom(tb, attrs, i, len) ==
    IF i > Len(attrs) \/ attrs[i].rta_len > len
    THEN tb
    ELSE ParseFrom([tb EXCEPT ![attrs[i].rta_type] = attrs[i]], attrs, i + 1,
                   len - RTA_ALIGN(attrs[i].rta_len))

netlink_parse_rtattr(attrs, len) ==
    ParseFrom([t \in AttrTypes |-> NoAttr], attrs, 1, len)

\* The interfaces known in each namespace.
NsInterfaces(ns_id) == IF ns_id = NS_DEFAULT THEN {"eth0"} ELSE {"eth1"}

\* zebra_ns_lookup(ns_id): the zebra_ns of the namespace.
zebra_ns_lookup(ns_id) == [ns_id |-> ns_id, if_table |-> NsInterfaces(ns_id)]

\* if_lookup_by_name_per_ns(zns, ifname): the interface of that name in the
\* namespace, or NULL.
if_lookup_by_name_per_ns(zns, ifname) ==
    IF \E i \in zns.if_table : NameBytes(i) = ifname
    THEN CHOOSE i \in zns.if_table : NameBytes(i) = ifname
    ELSE NULL

\* memset(&rule, 0, sizeof(rule)): every field of the rule, ifp included.
memset_rule(rule) == ZeroRule

\* memcpy of 4 (AF_INET) or 16 (otherwise) bytes of an attribute's payload
\* into a prefix's address union, and the prefix length from the header.
CopyPrefix(p, family, data, prefixlen) ==
    IF family = AF_INET
    THEN [p EXCEPT !.a4 = data[1], !.prefixlen = prefixlen]
    ELSE [p EXCEPT !.a4 = data[1], !.a12 = data[2], !.prefixlen = prefixlen]

\* A table that is always read from the header byte.
DecodeTable_hdr(frh, tb) == frh.table

\* rule.action.table: FRA_TABLE's value if the attribute is there, else the
\* header's table byte.
DecodeTable(frh, tb) ==
    IF AttrPresent(tb[FRA_TABLE]) THEN tb[FRA_TABLE].data[1] ELSE frh.table

\* The rule netlink_rule_change builds once the interface is known: rule.ifp
\* is set from the lookup, then the whole rule is zeroed, then the fields
\* are filled from the attributes.
DecodeRule(h, tb, ifp) ==
    LET frh == h.frh
        k0 == [ZeroRule EXCEPT !.ifp = ifp]
        k1 == memset_rule(k0)
        k2 == IF AttrPresent(tb[FRA_PRIORITY])
              THEN [k1 EXCEPT !.priority = tb[FRA_PRIORITY].data[1]]
              ELSE k1
        k3 == IF AttrPresent(tb[FRA_SRC])
              THEN [k2 EXCEPT
                      !.filter.src_ip = CopyPrefix(@, frh.family, tb[FRA_SRC].data,
                                                   frh.src_len),
                      !.filter.filter_bm = @ \cup {PBR_FILTER_SRC_IP}]
              ELSE k2
        k4 == IF AttrPresent(tb[FRA_DST])
              THEN [k3 EXCEPT
                      !.filter.dst_ip = CopyPrefix(@, frh.family, tb[FRA_DST].data,
                                                   frh.dst_len),
                      !.filter.filter_bm = @ \cup {PBR_FILTER_DST_IP}]
              ELSE k3
        k5 == [k4 EXCEPT !.action.table = DecodeTable(frh, tb)]
    IN k5

\* What one call of netlink_rule_change does: its return value, the rules it
\* hands to kernel_pbr_rule_del, and whether the process dies in it.
ChangeResult(r, dels, crash) == [ret |-> r, dels |-> dels, crash |-> crash]

\* What kernel_pbr_rule_del can return.
DelResults == {0, -1}

\* h->nlmsg_type != RTM_NEWRULE && h->nlmsg_type != RTM_DELRULE
NotRuleMsg(h) == h.nlmsg_type # RTM_NEWRULE /\ h.nlmsg_type # RTM_DELRULE

\* A handler that goes on to decode add notifications too.
IsAddRule_never(h) == FALSE

\* h->nlmsg_type == RTM_NEWRULE: handling of an add is TBD.
IsAddRule(h) == h.nlmsg_type = RTM_NEWRULE

\* A length that counts from the end of the netlink header only.
AttrLen_nohdr(h) == h.nlmsg_len - NLMSG_LENGTH(0)

\* len = h->nlmsg_len - NLMSG_LENGTH(sizeof(struct fib_rule_hdr))
AttrLen(h) == h.nlmsg_len - NLMSG_LENGTH(SizeofFibRuleHdr)

\* A family check that lets every family through.
FamilyHandled_any(frh) == TRUE

\* The negation of: frh->family != AF_INET && frh->family != AF_INET6
FamilyHandled(frh) == ~(frh.family # AF_INET /\ frh.family # AF_INET6)

\* The negation of: frh->action != FR_ACT_TO_TBL
ActionHandled(frh) == ~(frh.action # FR_ACT_TO_TBL)

\* A lookup in the default namespace, as netlink_rule_update does.
ChangeZns_default(ns_id) == zebra_ns_lookup(NS_DEFAULT)

\* zns = zebra_ns_lookup(ns_id)
ChangeZns(ns_id) == zebra_ns_lookup(ns_id)

\* netlink_rule_change(snl, h, ns_id, startup) with IS_ZEBRA_DEBUG_KERNEL =
\* debug: the set of its possible outcomes. There is more than one where the
\* rule goes to kernel_pbr_rule_del, which returns any of DelResults, and
\* where the debug line reads rule.ifp->name and rule.ifp->ifindex with
\* rule.ifp NULL: the behaviour is undefined, and the process dies of the
\* NULL dereference or goes on.
netlink_rule_change_outcomes(h, ns_id, debug) ==
    IF NotRuleMsg(h)
    THEN {ChangeResult(0, <<>>, FALSE)}
    ELSE IF IsAddRule(h)
    THEN {ChangeResult(0, <<>>, FALSE)}
    ELSE IF AttrLen(h) < 0
    THEN {ChangeResult(-1, <<>>, FALSE)}
    ELSE IF ~FamilyHandled(h.frh)
    THEN {ChangeResult(0, <<>>, FALSE)}
    ELSE IF ~ActionHandled(h.frh)
    THEN {ChangeResult(0, <<>>, FALSE)}
    ELSE LET tb == netlink_parse_rtattr(h.attrs, AttrLen(h)) IN
    IF ~AttrPresent(tb[FRA_IFNAME])
    THEN {ChangeResult(0, <<>>, FALSE)}
    ELSE LET ifname == tb[FRA_IFNAME].data
             zns == ChangeZns(ns_id)
             ifp == if_lookup_by_name_per_ns(zns, ifname)
         IN
    IF ifp = NULL
    THEN {ChangeResult(0, <<>>, FALSE)}
    ELSE LET rule == DecodeRule(h, tb, ifp) IN
    (IF debug /\ rule.ifp = NULL THEN {ChangeResult(0, <<>>, TRUE)} ELSE {})
    \cup { ChangeResult(r, <<rule>>, FALSE) : r \in DelResults }

(***************************************************************************)
(* The notifications the kernel socket delivers.                           *)
(***************************************************************************)
\* A rule message as the kernel lays it out: the header, then the attributes
\* asked for. An address attribute has 4 bytes in an AF_INET message and 16
\* in any other.
KernelMsg(type, family, action, ifname, hasPrio, src, dst, table) ==
    LET big == NL_PKT_BUF_SIZE
        bytelen == IF family = AF_INET THEN 4 ELSE 16
        p == IF family = AF_INET THEN PrefixV4 ELSE PrefixV6
        m0 == Msg(type, NLMSG_LENGTH(SizeofFibRuleHdr), 0,
                  FibRuleHdr(family,
                             IF dst THEN p.prefixlen ELSE 0,
                             IF src THEN p.prefixlen ELSE 0,
                             IF table < 256 THEN table ELSE RT_TABLE_UNSPEC,
                             action), <<>>)
        m1 == IF ifname # NULL
              THEN addattr_l(m0, big, FRA_IFNAME, NameBytes(ifname), StrlenPlus1(ifname))
              ELSE m0
        m2 == IF hasPrio THEN addattr32(m1, big, FRA_PRIORITY, 300) ELSE m1
        m3 == IF src THEN addattr_l(m2, big, FRA_SRC, PrefixBytes(p, bytelen), bytelen)
              ELSE m2
        m4 == IF dst THEN addattr_l(m3, big, FRA_DST, PrefixBytes(p, bytelen), bytelen)
              ELSE m3
        m5 == IF table < 256 THEN m4 ELSE addattr32(m4, big, FRA_TABLE, table)
    IN m5

\* A message whose nlmsg_len is shorter than a rule header.
ShortMsg(type, family) ==
    Msg(type, NLMSG_HDRLEN + 4, 0, FibRuleHdr(family, 0, 0, 0, FR_ACT_TO_TBL), <<>>)

\* Pairs of the interface named by IFNAME (NULL: no IFNAME attribute) and the
\* namespace the notification arrives in.
IfNs == {<<NULL, NS_DEFAULT>>, <<"eth0", NS_DEFAULT>>, <<"eth0", 1>>, <<"eth1", 1>>}

\* Delete notifications of IPv4 / IPv6 route-to-table rules, with every
\* combination of the optional attributes.
DelCandidates ==
    { <<KernelMsg(RTM_DELRULE, family, FR_ACT_TO_TBL, x[1], hasPrio, src, dst, table),
        x[2]>> :
        family \in {AF_INET, AF_INET6}, x \in IfNs, hasPrio \in BOOLEAN,
        src \in BOOLEAN, dst \in BOOLEAN, table \in {254, 1000} }

\* Delete notifications of another family (7) or of another action (6,
\* FR_ACT_BLACKHOLE).
DelForeign ==
    { <<KernelMsg(RTM_DELRULE, fa[1], fa[2], x[1], TRUE, src, FALSE, 254), x[2]>> :
        fa \in {<<7, FR_ACT_TO_TBL>>, <<AF_INET, 6>>, <<7, 6>>},
        x \in IfNs, src \in BOOLEAN }

\* Add notifications.
NewRules ==
    { <<KernelMsg(RTM_NEWRULE, family, action, x[1], TRUE, src, FALSE, 254), x[2]>> :
        family \in {AF_INET, AF_INET6, 7}, action \in {FR_ACT_TO_TBL, 6},
        x \in IfNs, src \in BOOLEAN }

\* Messages of another type (24, RTM_NEWROUTE), and short messages.
OtherMsgs ==
    { <<KernelMsg(24, family, FR_ACT_TO_TBL, x[1], TRUE, TRUE, FALSE, 254), x[2]>> :
        family \in {AF_INET}, x \in IfNs }
    \cup
    { <<ShortMsg(type, family), NS_DEFAULT>> :
        type \in {RTM_NEWRULE, RTM_DELRULE, 24}, family \in {AF_INET, 7} }

Notifications == DelCandidates \cup DelForeign \cup NewRules \cup OtherMsgs

(***************************************************************************)
(* pbrd's vty: the match commands of a pbr-map sequence.                   *)
(***************************************************************************)
CMD_SUCCESS == "CMD_SUCCESS"

\* A pbr-map sequence as 'pbr-map NAME seq N' hands it to the vty: no match
\* yet. src and dst are pointers to a prefix: <<>> is NULL, <<p>> points to p.
\* nhgrp_name points to the name of its nexthop-group and nhg to its own
\* group of individually configured nexthops, each <<>> when NULL.
NewSequence ==
    [family |-> 0, src |-> <<>>, dst |-> <<>>, nhgrp_name |-> <<>>, nhg |-> <<>>]

\* A command: its name, whether it has the 'no' form, its prefix.
Command(name, no, prefix) == [name |-> name, no |-> no, prefix |-> prefix]
NoCommand == Command("none", FALSE, ZeroPrefix)

\* The prefixes typed: 10.0.0.0/24, 2001:db8::1/64 and 192.0.0.0/16.
VtyPrefixes == {PrefixV4, PrefixV6, Prefix(AF_INET, 16, 192, 0)}

\* prefix_same(p1, p2) with p2 not NULL: p1 is not NULL and has p2's family,
\* prefix length and address.
prefix_same(p1, p2) == p1 # <<>> /\ p1[1] = p2

\* pbr_map_check(pbrms): the owner looks at the sequence again; it leaves
\* family, src and dst as they are.
pbr_map_check(seq) == seq

\* [no] match src-ip <A.B.C.D/M|X:X::X:X/M>$prefix
pbr_map_match_src(no, prefix) ==
    LET s1 == [pbrms EXCEPT !.family = prefix.family] IN
    /\ pbrms' = IF ~no
                THEN IF prefix_same(s1.src, prefix)
                     THEN s1
                     ELSE pbr_map_check([s1 EXCEPT !.src = <<prefix>>])
                ELSE pbr_map_check([s1 EXCEPT !.src = <<>>])
    /\ vty_cmd' = Command("match src-ip", no, prefix)
    /\ vty_ret' = CMD_SUCCESS
    /\ vty_name' = ""
    /\ vty_ifp' = NULL
    /\ UNCHANGED <<zebra_vars, policy_vars>>

\* [no] match dst-ip <A.B.C.D/M|X:X::X:X/M>$prefix
pbr_map_match_dst(no, prefix) ==
    LET s1 == [pbrms EXCEPT !.family = prefix.family] IN
    /\ pbrms' = IF ~no
                THEN IF prefix_same(s1.dst, prefix)
                     THEN s1
                     ELSE pbr_map_check([s1 EXCEPT !.dst = <<prefix>>])
                ELSE pbr_map_check([s1 EXCEPT !.dst = <<>>])
    /\ vty_cmd' = Command("match dst-ip", no, prefix)
    /\ vty_ret' = CMD_SUCCESS
    /\ vty_name' = ""
    /\ vty_ifp' = NULL
    /\ UNCHANGED <<zebra_vars, policy_vars>>

(***************************************************************************)
(* pbrd's vty: the set commands of a pbr-map sequence.                     *)
(***************************************************************************)
CMD_WARNING_CONFIG_FAILED == "CMD_WARNING_CONFIG_FAILED"
NEXTHOP_TYPE_IPV4 == "NEXTHOP_TYPE_IPV4"
NEXTHOP_TYPE_IPV4_IFINDEX == "NEXTHOP_TYPE_IPV4_IFINDEX"
NEXTHOP_TYPE_IPV6 == "NEXTHOP_TYPE_IPV6"
NEXTHOP_TYPE_IPV6_IFINDEX == "NEXTHOP_TYPE_IPV6_IFINDEX"
IFINDEX_INTERNAL == 0
VRF_DEFAULT == 0

\* What is typed: the nexthop-group names, the nexthop addresses (family and
\* address), the interfaces (none, one that exists, one that does not) and
\* the nexthop-vrf names (none, one that does not exist).
GroupNames == {"NHG-1", "NHG-2"}
NexthopAddrs == {[sa_family |-> AF_INET, addr |-> 1],
                 [sa_family |-> AF_INET6, addr |-> 2]}
NexthopIntfs == {NULL, "eth0", "eth9"}
NexthopVrfs == {NULL, "nope"}

\* What a command returns and what it leaves of the sequence.
VtyResult(r, seq) == [ret |-> r, seq |-> seq]

\* pbr_map_delete_nexthop_group(pbrms): the sequence has no nexthop-group
\* name afterwards.
pbr_map_delete_nexthop_group(seq) == [seq EXCEPT !.nhgrp_name = <<>>]

\* A check that never sees the individual nexthop.
NexthopSet_never(seq) == FALSE

\* if (pbrms->nhg)
NexthopSet(seq) == seq.nhg # <<>>

\* if (pbrms->nhgrp_name)
GroupSet(seq) == seq.nhgrp_name # <<>>

\* What [no] set nexthop-group NAME$name does to sequence seq. nhgc_find
\* only decides what is printed.
nexthop_group_outcome(seq, no, name) ==
    IF NexthopSet(seq)
    THEN VtyResult(CMD_WARNING_CONFIG_FAILED, seq)
    ELSE IF no
    THEN IF GroupSet(seq) /\ name = seq.nhgrp_name[1]
         THEN VtyResult(CMD_SUCCESS, pbr_map_delete_nexthop_group(seq))
         ELSE VtyResult(CMD_WARNING_CONFIG_FAILED, seq)
    ELSE IF GroupSet(seq)
    THEN IF name # seq.nhgrp_name[1]
         THEN VtyResult(CMD_WARNING_CONFIG_FAILED, seq)
         ELSE VtyResult(CMD_SUCCESS, seq)
    ELSE VtyResult(CMD_SUCCESS,
                   pbr_map_check([seq EXCEPT !.nhgrp_name = <<name>>]))

\* [no] set nexthop-group NAME$name
pbr_map_nexthop_group(no, name) ==
    LET c == nexthop_group_outcome(pbrms, no, name) IN
    /\ pbrms' = c.seq
    /\ vty_ret' = c.ret
    /\ vty_cmd' = Command("set nexthop-group", no, ZeroPrefix)
    /\ vty_name' = name
    /\ vty_ifp' = NULL
    /\ UNCHANGED <<zebra_vars, policy_vars>>

\* vrf_lookup_by_name(name) / vrf_lookup_by_id(VRF_DEFAULT): a pointer to
\* the vrf, <<>> when there is none of that name.
vrf_lookup(name) ==
    IF name = NULL THEN <<[vrf_id |-> VRF_DEFAULT]>> ELSE <<>>

\* ifname2ifindex(intf, vrf_id): eth0 is interface 2 of the default vrf.
ifname2ifindex(intf, vrf_id) ==
    IF intf = "eth0" /\ vrf_id = VRF_DEFAULT THEN 2 ELSE IFINDEX_INTERNAL

\* The struct nexthop built from the address, the interface and the vrf.
Nexthop(vrf_id, addr, intf) ==
    [vrf_id |-> vrf_id,
     gate |-> addr.addr,
     type |-> IF addr.sa_family = AF_INET
              THEN IF intf # NULL THEN NEXTHOP_TYPE_IPV4_IFINDEX
                                  ELSE NEXTHOP_TYPE_IPV4
              ELSE IF intf # NULL THEN NEXTHOP_TYPE_IPV6_IFINDEX
                                  ELSE NEXTHOP_TYPE_IPV6,
     ifindex |-> IF intf # NULL THEN ifname2ifindex(intf, vrf_id) ELSE 0]

\* nexthop_exists(nhg, nhop): a nexthop of the group equal to nhop.
nexthop_exists(nhg, nhop) ==
    \E k \in 1..Len(nhg.nexthop) : nhg.nexthop[k] = nhop

\* pbr_nht_delete_individual_nexthop(pbrms): the sequence's nexthop is gone
\* afterwards, with the group deleted or left empty.
pbr_nht_delete_individual_nexthop(seq) ==
    { [seq EXCEPT !.nhg = <<>>], [seq EXCEPT !.nhg = <<[nexthop |-> <<>>]>>] }

\* What [no] set nexthop addr [intf] [nexthop-vrf name] can do to sequence
\* seq: the set of its outcomes.
nexthop_outcomes(seq, no, addr, intf, name) ==
    IF GroupSet(seq)
    THEN {VtyResult(CMD_WARNING_CONFIG_FAILED, seq)}
    ELSE LET vrf == vrf_lookup(name) IN
    IF vrf = <<>>
    THEN {VtyResult(CMD_WARNING_CONFIG_FAILED, seq)}
    ELSE LET nhop == Nexthop(vrf[1].vrf_id, addr, intf) IN
    IF intf # NULL /\ nhop.ifindex = IFINDEX_INTERNAL
    THEN {VtyResult(CMD_WARNING_CONFIG_FAILED, seq)}
    ELSE IF seq.nhg = <<>> /\ no
    THEN {VtyResult(CMD_WARNING_CONFIG_FAILED, seq)}
    ELSE LET s1 == IF seq.nhg = <<>>
                   THEN [seq EXCEPT !.nhg = <<[nexthop |-> <<>>]>>]
                   ELSE seq
             nh == seq.nhg # <<>> /\ nexthop_exists(seq.nhg[1], nhop)
         IN
    IF no
    THEN IF nh
         THEN {VtyResult(CMD_SUCCESS, q) :
                 q \in pbr_nht_delete_individual_nexthop(s1)}
         ELSE {VtyResult(CMD_SUCCESS, s1)}
    ELSE IF ~nh
    THEN IF s1.nhg[1].nexthop # <<>>
         THEN {VtyResult(CMD_WARNING_CONFIG_FAILED, s1)}
         ELSE {VtyResult(CMD_SUCCESS,
                         pbr_map_check([s1 EXCEPT !.nhg[1].nexthop = <<nhop>>]))}
    ELSE {VtyResult(CMD_SUCCESS, s1)}

\* [no] set nexthop <A.B.C.D|X:X::X:X>$addr [INTERFACE]$intf [nexthop-vrf NAME$name]
pbr_map_nexthop(no, addr, intf, name) ==
    /\ \E c \in nexthop_outcomes(pbrms, no, addr, intf, name) :
          /\ pbrms' = c.seq
          /\ vty_ret' = c.ret
    /\ vty_cmd' = Command("set nexthop", no, ZeroPrefix)
    /\ vty_name' = ""
    /\ vty_ifp' = NULL
    /\ UNCHANGED <<zebra_vars, policy_vars>>

NextVty ==
    \/ \E no \in BOOLEAN, prefix \in VtyPrefixes : pbr_map_match_src(no, prefix)
    \/ \E no \in BOOLEAN, prefix \in VtyPrefixes : pbr_map_match_dst(no, prefix)
    \/ \E no \in BOOLEAN, name \in GroupNames : pbr_map_nexthop_group(no, name)
    \/ \E no \in BOOLEAN, addr \in NexthopAddrs, intf \in NexthopIntfs,
          name \in NexthopVrfs : pbr_map_nexthop(no, addr, intf, name)

(***************************************************************************)
(* pbrd's vty: the pbr-policy command of an interface.                     *)
(***************************************************************************)
\* The pbr-maps that exist, the names typed (one names no pbr-map), and the
\* interfaces the command is entered on.
PbrMaps == {"MAP-A", "MAP-B"}
PolicyNames == PbrMaps \cup {"MAP-X"}
VtyInterfaces == {"eth0", "eth1"}

\* pbrm_find(name): a pointer to the pbr-map of that name, <<>> (NULL) when
\* there is none.
pbrm_find(name) == IF name \in PbrMaps THEN <<name>> ELSE <<>>

\* pbr_map_add_interface(pbrm, ifp): ifp is on pbrm's list afterwards.
pbr_map_add_interface(inc, pbrm, ifp) ==
    [inc EXCEPT ![pbrm[1]] = @ \cup {ifp}]

\* pbr_map_interface_delete(pbrm, ifp): ifp is not on pbrm's list afterwards.
pbr_map_interface_delete(inc, pbrm, ifp) ==
    [inc EXCEPT ![pbrm[1]] = @ \ {ifp}]

\* if (pbrm) pbr_map_add_interface(pbrm, ifp)
AttachNew(inc, mapname, ifp) ==
    IF pbrm_find(mapname) # <<>>
    THEN pbr_map_add_interface(inc, pbrm_find(mapname), ifp)
    ELSE inc

\* A rebinding that leaves the interface on the old pbr-map's list.
DetachOld_skip(inc, mapname, ifp) == inc

\* old_pbrm = pbrm_find(pbr_ifp->mapname);
\* if (old_pbrm) pbr_map_interface_delete(old_pbrm, ifp)
DetachOld(inc, mapname, ifp) ==
    IF pbrm_find(mapname) # <<>>
    THEN pbr_map_interface_delete(inc, pbrm_find(mapname), ifp)
    ELSE inc

\* [no] pbr-policy NAME$mapname, entered on interface ifp.
pbr_policy(ifp, no, mapname) ==
    LET old == pbr_ifp[ifp] IN
    /\ IF no
       THEN IF old = mapname
            THEN /\ pbr_ifp' = [pbr_ifp EXCEPT ![ifp] = ""]
                 /\ incoming' = DetachOld(incoming, mapname, ifp)
            ELSE UNCHANGED policy_vars
       ELSE IF old = ""
            THEN /\ pbr_ifp' = [pbr_ifp EXCEPT ![ifp] = mapname]
                 /\ incoming' = AttachNew(incoming, mapname, ifp)
            ELSE IF old # mapname
            THEN /\ pbr_ifp' = [pbr_ifp EXCEPT ![ifp] = mapname]
                 /\ incoming' = AttachNew(DetachOld(incoming, old, ifp),
                                          mapname, ifp)
            ELSE UNCHANGED policy_vars
    /\ vty_cmd' = Command("pbr-policy", no, ZeroPrefix)
    /\ vty_ret' = CMD_SUCCESS
    /\ vty_name' = mapname
    /\ vty_ifp' = ifp
    /\ UNCHANGED <<zebra_vars, pbrms>>

NextPolicy ==
    \E ifp \in VtyInterfaces, no \in BOOLEAN, mapname \in PolicyNames :
        pbr_policy(ifp, no, mapname)

(***************************************************************************)
(* Initial state and the install / uninstall entry points.                 *)
(***************************************************************************)
Init ==
    /\ op = "none"
    /\ arg_rule = NoRule
    /\ arg_h = NoMsg
    /\ arg_ns = NS_DEFAULT
    /\ sent = <<>>
    /\ ret = 0
    /\ cb_status = <<>>
    /\ cb_del = <<>>
    /\ crashed = FALSE
    /\ zebra_debug_kernel \in BOOLEAN
    /\ pc = "idle"
    /\ in_flight = <<>>
    /\ pbrms = NewSequence
    /\ vty_cmd = NoCommand
    /\ vty_ret = CMD_SUCCESS
    /\ vty_name = ""
    /\ vty_ifp = NULL
    /\ pbr_ifp = [ifp \in VtyInterfaces |-> ""]
    /\ incoming = [pbrm \in PbrMaps |-> {}]

\* A call can be made: the process is alive and its thread is in no call.
CanCall == ~crashed /\ pc = "idle"

\* kernel_add_pbr_rule(rule); talk is what netlink_talk returns.
kernel_add_pbr_rule(rule, talk) ==
    LET u == netlink_rule_update(RTM_NEWRULE, rule, talk) IN
    /\ CanCall
    /\ op' = "kernel_add_pbr_rule"
    /\ arg_rule' = rule
    /\ arg_h' = NoMsg
    /\ arg_ns' = NS_DEFAULT
    /\ sent' = <<u.req>>
    /\ ret' = u.ret
    /\ cb_status' = <<StatusCall(rule, InstallStatus(u.ret))>>
    /\ cb_del' = <<>>
    /\ UNCHANGED <<crashed, zebra_debug_kernel, talk_vars, vty_vars>>

\* kernel_del_pbr_rule(rule); talk is what netlink_talk returns.
kernel_del_pbr_rule(rule, talk) ==
    LET u == netlink_rule_update(RTM_DELRULE, rule, talk) IN
    /\ CanCall
    /\ op' = "kernel_del_pbr_rule"
    /\ arg_rule' = rule
    /\ arg_h' = NoMsg
    /\ arg_ns' = NS_DEFAULT
    /\ sent' = <<u.req>>
    /\ ret' = u.ret
    /\ cb_status' = <<StatusCall(rule, DeleteStatus(u.ret))>>
    /\ cb_del' = <<>>
    /\ UNCHANGED <<crashed, zebra_debug_kernel, talk_vars, vty_vars>>

\* A notification handler that installs again the rule it saw deleted.
netlink_rule_change_readd(h, ns_id) ==
    /\ CanCall
    /\ \E c \in netlink_rule_change_outcomes(h, ns_id, zebra_debug_kernel) :
          /\ ret' = c.ret
          /\ cb_del' = c.dels
          /\ crashed' = c.crash
          /\ sent' = IF c.dels # <<>>
                     THEN <<RuleRequest(RTM_NEWRULE, c.dels[1])>>
                     ELSE <<>>
    /\ op' = "netlink_rule_change"
    /\ arg_rule' = NoRule
    /\ arg_h' = h
    /\ arg_ns' = ns_id
    /\ cb_status' = <<>>
    /\ UNCHANGED <<zebra_debug_kernel, talk_vars, vty_vars>>

\* netlink_rule_change(snl, h, ns_id, startup).
netlink_rule_change(h, ns_id) ==
    /\ CanCall
    /\ \E c \in netlink_rule_change_outcomes(h, ns_id, zebra_debug_kernel) :
          /\ ret' = c.ret
          /\ cb_del' = c.dels
          /\ crashed' = c.crash
    /\ op' = "netlink_rule_change"
    /\ arg_rule' = NoRule
    /\ arg_h' = h
    /\ arg_ns' = ns_id
    /\ sent' = <<>>
    /\ cb_status' = <<>>
    /\ UNCHANGED <<zebra_debug_kernel, talk_vars, vty_vars>>

\* netlink_rules_read(zns): nothing is read; returns 0.
netlink_rules_read ==
    /\ CanCall
    /\ op' = "netlink_rules_read"
    /\ arg_rule' = NoRule
    /\ arg_h' = NoMsg
    /\ arg_ns' = NS_DEFAULT
    /\ sent' = <<>>
    /\ ret' = 0
    /\ cb_status' = <<>>
    /\ cb_del' = <<>>
    /\ UNCHANGED <<crashed, zebra_debug_kernel, talk_vars, vty_vars>>

\* The namespaces a notification can come from.
Namespaces == {NS_DEFAULT, NS_DEFAULT + 1}

\* The kernel has deleted the rule of the uninstall just acknowledged and
\* tells the listeners of namespace ns_id: netlink_rule_change is called with
\* the message kernel_del_pbr_rule sent.
rule_deleted(ns_id) ==
    /\ op = "kernel_del_pbr_rule"
    /\ ret = 0
    /\ netlink_rule_change(sent[1], ns_id)

Next ==
    \/ \E rule \in Rules, talk \in TalkResults : kernel_add_pbr_rule(rule, talk)
    \/ \E rule \in Rules, talk \in TalkResults : kernel_del_pbr_rule(rule, talk)
    \/ \E x \in Notifications : netlink_rule_change(x[1], x[2])
    \/ \E ns_id \in Namespaces : rule_deleted(ns_id)
    \/ netlink_rules_read

Spec == Init /\ [][Next]_vars

(***************************************************************************)
(* The install / uninstall entry points step by step: netlink_talk blocks  *)
(* the thread from the moment the request is on the channel until the      *)
(* kernel's answer to it has arrived.                                      *)
(***************************************************************************)
\* The entry point that sends cmd.
EntryPoint(cmd) ==
    IF cmd = RTM_NEWRULE THEN "kernel_add_pbr_rule" ELSE "kernel_del_pbr_rule"

\* kernel_add_pbr_rule(rule) or kernel_del_pbr_rule(rule) is called and runs
\* netlink_rule_update up to netlink_talk, which puts the request on the
\* channel and waits.
netlink_talk_send(cmd, rule) ==
    /\ CanCall
    /\ op' = EntryPoint(cmd)
    /\ arg_rule' = rule
    /\ arg_h' = NoMsg
    /\ arg_ns' = NS_DEFAULT
    /\ sent' = <<RuleRequest(cmd, rule)>>
    /\ in_flight' = Append(in_flight, RuleRequest(cmd, rule))
    /\ pc' = "talk"
    /\ ret' = 0
    /\ cb_status' = <<>>
    /\ cb_del' = <<>>
    /\ UNCHANGED <<crashed, zebra_debug_kernel, vty_vars>>

\* The kernel's acknowledgment (talk = 0) or error for the request in flight
\* arrives; netlink_talk returns talk and netlink_rule_update returns it.
netlink_talk_recv(talk) ==
    /\ ~crashed
    /\ pc = "talk"
    /\ in_flight # <<>>
    /\ in_flight' = Tail(in_flight)
    /\ ret' = netlink_rule_update(sent[1].nlmsg_type, arg_rule, talk).ret
    /\ pc' = "reply"
    /\ UNCHANGED <<op, arg_rule, arg_h, arg_ns, sent, cb_status, cb_del,
                   crashed, zebra_debug_kernel, vty_vars>>

\* A status callback made while the request is still with the kernel.
CanReport_early == pc \in {"talk", "reply"}

\* kernel_pbr_rule_add_del_status is the statement after
\* ret = netlink_rule_update(...): it runs once that call has returned.
CanReport == pc = "reply"

\* kernel_pbr_rule_add_del_status(rule, status); the entry point returns.
status_report ==
    /\ ~crashed
    /\ CanReport
    /\ cb_status' = <<StatusCall(arg_rule,
                                 IF op = "kernel_add_pbr_rule"
                                 THEN InstallStatus(ret)
                                 ELSE DeleteStatus(ret))>>
    /\ pc' = "idle"
    /\ UNCHANGED <<op, arg_rule, arg_h, arg_ns, sent, ret, cb_del,
                   crashed, zebra_debug_kernel, in_flight, vty_vars>>

\* The notifications delivered between the installs and uninstalls.
TalkNotifications == NewRules \cup OtherMsgs

NextTalk ==
    \/ \E cmd \in {RTM_NEWRULE, RTM_DELRULE}, rule \in Rules :
          netlink_talk_send(cmd, rule)
    \/ \E talk \in TalkResults : netlink_talk_recv(talk)
    \/ status_report
    \/ \E x \in TalkNotifications : netlink_rule_change(x[1], x[2])
    \/ \E ns_id \in Namespaces : rule_deleted(ns_id)
    \/ netlink_rules_read

SpecTalk == Init /\ [][NextTalk]_vars

\* pbrd's vty alone.
SpecVty == Init /\ [][NextVty]_vars

\* pbrd's vty on the interfaces.
SpecPolicy == Init /\ [][NextPolicy]_vars

(***************************************************************************)
(* Properties of the install / uninstall entry points.                     *)
(***************************************************************************)
\* The attributes of type t in message m, in order.
AttrsOfType(m, t) == SelectSeq(m.attrs, LAMBDA a : a.rta_type = t)

\* The payload size of an attribute.
PayloadLen(a) == a.rta_len - RTA_HDRLEN

\* The last call was an install or an uninstall.
IsSync == op \in {"kernel_add_pbr_rule", "kernel_del_pbr_rule"}

\* C1: one call to kernel_add_pbr_rule invokes the status callback exactly
\* once, for the rule of the call, with SOUTHBOUND_INSTALL_SUCCESS iff the
\* kernel round trip returned 0 and SOUTHBOUND_INSTALL_FAILURE otherwise;
\* one call to kernel_del_pbr_rule likewise with SOUTHBOUND_DELETE_SUCCESS /
\* SOUTHBOUND_DELETE_FAILURE.
C1_StatusExactlyOnce ==
    /\ op = "kernel_add_pbr_rule" =>
         /\ Len(cb_status) = 1
         /\ cb_status[1].rule = arg_rule
         /\ ret = 0 => cb_status[1].status = SOUTHBOUND_INSTALL_SUCCESS
         /\ ret # 0 => cb_status[1].status = SOUTHBOUND_INSTALL_FAILURE
    /\ op = "kernel_del_pbr_rule" =>
         /\ Len(cb_status) = 1
         /\ cb_status[1].rule = arg_rule
         /\ ret = 0 => cb_status[1].status = SOUTHBOUND_DELETE_SUCCESS
         /\ ret # 0 => cb_status[1].status = SOUTHBOUND_DELETE_FAILURE

\* An install of a rule on eth0 that the kernel refused was reported once.
C1_Witness ==
    /\ op = "kernel_add_pbr_rule"
    /\ arg_rule.ifp = "eth0"
    /\ ret # 0
    /\ Len(cb_status) = 1
    /\ cb_status[1].status = SOUTHBOUND_INSTALL_FAILURE

\* C4: the request of an install or uninstall carries the table id by the
\* dual rule: a table below 256 is in the header's table byte and there is no
\* TABLE attribute; a table of 256 or more leaves RT_TABLE_UNSPEC in the
\* header and is carried whole by one 4-byte TABLE attribute.
C4_TableDualEncoding ==
    IsSync =>
      LET m == sent[1]
          t == arg_rule.action.table
          ta == AttrsOfType(m, FRA_TABLE)
      IN /\ Len(sent) = 1
         /\ t < 256 => m.frh.table = t /\ ta = <<>>
         /\ t >= 256 =>
              /\ m.frh.table = RT_TABLE_UNSPEC
              /\ Len(ta) = 1
              /\ PayloadLen(ta[1]) = 4
              /\ ta[1].data = <<t>>

\* An uninstall for table 1000 was sent with the sentinel in the header and
\* a TABLE attribute, and an install for table 255 is possible too.
C4_Witness ==
    /\ op = "kernel_del_pbr_rule"
    /\ arg_rule.action.table = 1000
    /\ sent[1].frh.table = RT_TABLE_UNSPEC
    /\ Len(AttrsOfType(sent[1], FRA_TABLE)) = 1

\* C5: the family in the request's header is the family of the rule's src
\* prefix when src is set, and otherwise the family of its dst prefix.
C5_FamilyFromSrcElseDst ==
    IsSync =>
      sent[1].frh.family =
        IF IS_RULE_FILTERING_ON_SRC_IP(arg_rule)
        THEN PREFIX_FAMILY(arg_rule.filter.src_ip)
        ELSE PREFIX_FAMILY(arg_rule.filter.dst_ip)

\* C6: the request has a DST attribute iff the rule's dst is set; its payload
\* is 4 bytes for an IPv4 dst and 16 bytes for an IPv6 dst, whatever src is;
\* and the header's dst_len is the dst prefix length.
C6_DstAttribute ==
    IsSync =>
      LET m == sent[1]
          da == AttrsOfType(m, FRA_DST)
          dst == arg_rule.filter.dst_ip
      IN /\ Len(da) = (IF IS_RULE_FILTERING_ON_DST_IP(arg_rule) THEN 1 ELSE 0)
         /\ IS_RULE_FILTERING_ON_DST_IP(arg_rule) =>
              /\ PREFIX_FAMILY(dst) = AF_INET => PayloadLen(da[1]) = 4
              /\ PREFIX_FAMILY(dst) = AF_INET6 => PayloadLen(da[1]) = 16
              /\ m.frh.dst_len = dst.prefixlen

(***************************************************************************)
(* Properties of the notification handler.                                 *)
(***************************************************************************)
\* The notification of the last call names, in IFNAME, interface ifp.
NamesInterface(h, ifp) ==
    \E k \in 1..Len(h.attrs) :
        h.attrs[k].rta_type = FRA_IFNAME /\ h.attrs[k].data = NameBytes(ifp)

\* The notification carries an IFNAME attribute.
HasIfname(h) == \E k \in 1..Len(h.attrs) : h.attrs[k].rta_type = FRA_IFNAME

\* The notification names an interface known in namespace ns_id.
KnownInterface(h, ns_id) == \E ifp \in NsInterfaces(ns_id) : NamesInterface(h, ifp)

\* The six filters: a rule message, not an add, of family IPv4 or IPv6, of
\* action route-to-table, with IFNAME, naming a known interface; and a length
\* that holds the rule header.
PassesFilters(h, ns_id) ==
    /\ h.nlmsg_type = RTM_DELRULE
    /\ h.nlmsg_len >= NLMSG_LENGTH(SizeofFibRuleHdr)
    /\ h.frh.family \in {AF_INET, AF_INET6}
    /\ h.frh.action = FR_ACT_TO_TBL
    /\ KnownInterface(h, ns_id)

IsChange == op = "netlink_rule_change"

\* C2: the rule handed to kernel_pbr_rule_del for a delete notification that
\* passes every filter has the interface that IFNAME resolved to.
C2_DelRuleHasInterface ==
    (IsChange /\ PassesFilters(arg_h, arg_ns)) =>
      \A i \in 1..Len(cb_del) :
         /\ cb_del[i].ifp \in NsInterfaces(arg_ns)
         /\ NamesInterface(arg_h, cb_del[i].ifp)

\* C3: a delete notification of well-formed length that passes the six
\* filters makes exactly one call of kernel_pbr_rule_del, whichever of the
\* optional attributes it has.
C3_AcceptedDeletedOnce ==
    (IsChange /\ PassesFilters(arg_h, arg_ns)) => Len(cb_del) = 1

\* C8: an add notification (RTM_NEWRULE) never reaches kernel_pbr_rule_del.
C8_AddNeverDeletes ==
    (IsChange /\ arg_h.nlmsg_type = RTM_NEWRULE) => cb_del = <<>>

\* An add notification that a delete would have passed the filters with
\* (IPv4, route-to-table, eth0 in the default namespace) was dropped.
C8_Witness ==
    /\ IsChange
    /\ arg_h.nlmsg_type = RTM_NEWRULE
    /\ PassesFilters([arg_h EXCEPT !.nlmsg_type = RTM_DELRULE], arg_ns)
    /\ cb_del = <<>>
    /\ ret = 0

\* C9: a delete notification of a family other than IPv4 and IPv6, or of an
\* action other than route-to-table, makes no callback.
C9_ForeignDropped ==
    (/\ IsChange
     /\ arg_h.nlmsg_type = RTM_DELRULE
     /\ \/ arg_h.frh.family \notin {AF_INET, AF_INET6}
        \/ arg_h.frh.action # FR_ACT_TO_TBL)
      => cb_del = <<>> /\ cb_status = <<>>

\* A delete notification of another family that names a known interface was
\* dropped.
C9_Witness ==
    /\ IsChange
    /\ arg_h.nlmsg_type = RTM_DELRULE
    /\ arg_h.frh.family \notin {AF_INET, AF_INET6}
    /\ arg_h.frh.action = FR_ACT_TO_TBL
    /\ KnownInterface(arg_h, arg_ns)
    /\ cb_del = <<>>
    /\ cb_status = <<>>

\* C10: a delete notification without IFNAME, or whose IFNAME names no
\* interface of the namespace ns_id, never reaches kernel_pbr_rule_del; what
\* counts is the namespace of the notification, not the default one.
C10_UnknownInterfaceDropped ==
    (/\ IsChange
     /\ arg_h.nlmsg_type = RTM_DELRULE
     /\ ~HasIfname(arg_h) \/ ~KnownInterface(arg_h, arg_ns))
      => cb_del = <<>>

\* A delete notification in namespace 1 for eth0, which is an interface of
\* the default namespace only, passed the other filters and was dropped.
C10_Witness ==
    /\ IsChange
    /\ arg_ns # NS_DEFAULT
    /\ PassesFilters(arg_h, NS_DEFAULT)
    /\ ~KnownInterface(arg_h, arg_ns)
    /\ cb_del = <<>>

\* The message's declared length is shorter than a rule header.
ShorterThanHeader(h) == h.nlmsg_len < NLMSG_LENGTH(SizeofFibRuleHdr)

\* C11, as claimed: every notification that netlink_rule_change does not hand
\* to kernel_pbr_rule_del is dropped with the return value 0, a rule message
\* shorter than the rule header included.
C11_DroppedReturnsZero ==
    (IsChange /\ ~crashed /\ cb_del = <<>>) => ret = 0

\* C11, amended: a notification that one of the filters rejects is dropped
\* with the return value 0, and a delete notification whose declared length
\* is shorter than the rule header is dropped with the return value -1;
\* neither reaches a callback.
C11_DroppedReturn ==
    (IsChange /\ ~PassesFilters(arg_h, arg_ns)) =>
      /\ cb_del = <<>>
      /\ cb_status = <<>>
      /\ ret = IF arg_h.nlmsg_type = RTM_DELRULE /\ ShorterThanHeader(arg_h)
               THEN -1 ELSE 0

\* A delete notification shorter than the rule header was answered with -1.
C11_Witness ==
    /\ IsChange
    /\ arg_h.nlmsg_type = RTM_DELRULE
    /\ ShorterThanHeader(arg_h)
    /\ cb_del = <<>>
    /\ ret = -1

(***************************************************************************)
(* Properties of the encoder.                                              *)
(***************************************************************************)
\* A request with its operation code blanked.
WithoutType(m) == [m EXCEPT !.nlmsg_type = 0]

\* C12: whenever the same rule is installed and then uninstalled, or
\* uninstalled and then installed, the two requests agree in every header
\* field and every attribute (family, action FR_ACT_TO_TBL, src_len, dst_len,
\* table, PRIORITY, IFNAME, SRC, DST, TABLE) and differ only in the operation
\* code, RTM_NEWRULE for the install and RTM_DELRULE for the uninstall.
C12_AddDeleteSameEncoding ==
    [][ (IsSync /\ IsSync' /\ op' # op /\ arg_rule' = arg_rule) =>
          /\ WithoutType(sent'[1]) = WithoutType(sent[1])
          /\ sent[1].frh.action = FR_ACT_TO_TBL
          /\ sent'[1].frh.action = FR_ACT_TO_TBL
          /\ sent[1].nlmsg_type =
               (IF op = "kernel_add_pbr_rule" THEN RTM_NEWRULE ELSE RTM_DELRULE)
          /\ sent'[1].nlmsg_type =
               (IF op' = "kernel_add_pbr_rule" THEN RTM_NEWRULE ELSE RTM_DELRULE)
      ]_vars

\* An uninstall request for a rule with an interface, both prefixes and a
\* table above 255: every attribute is in the message.
C12_Witness ==
    /\ op = "kernel_del_pbr_rule"
    /\ sent[1].nlmsg_type = RTM_DELRULE
    /\ \A t \in AttrTypes : Len(AttrsOfType(sent[1], t)) = 1

\* C13: every request, install or uninstall, for any rule, carries exactly
\* one PRIORITY attribute, four bytes long, whose value is the rule's
\* priority.
C13_PriorityAlways ==
    IsSync =>
      LET a == AttrsOfType(sent[1], FRA_PRIORITY) IN
      /\ Len(a) = 1
      /\ PayloadLen(a[1]) = 4
      /\ a[1].data = <<arg_rule.priority>>

\* A request for a rule without interface, prefixes or table attribute still
\* carries the priority.
C13_Witness ==
    /\ IsSync
    /\ arg_rule.ifp = NULL
    /\ arg_rule.filter.filter_bm = {}
    /\ Len(sent[1].attrs) = 1
    /\ sent[1].attrs[1].rta_type = FRA_PRIORITY
    /\ sent[1].attrs[1].data = <<arg_rule.priority>>

\* C14: a request carries the SRC attribute iff the rule's src is set; its
\* payload is the 4 bytes of an IPv4 src or the 16 bytes of an IPv6 src, and
\* the header's src_len is the src prefix length, 0 when src is not set.
C14_SrcAttribute ==
    IsSync =>
      LET a == AttrsOfType(sent[1], FRA_SRC)
          src == arg_rule.filter.src_ip
      IN IF IS_RULE_FILTERING_ON_SRC_IP(arg_rule)
         THEN /\ Len(a) = 1
              /\ sent[1].frh.src_len = src.prefixlen
              /\ src.family = AF_INET =>
                   PayloadLen(a[1]) = 4 /\ a[1].data = <<src.a4>>
              /\ src.family = AF_INET6 =>
                   PayloadLen(a[1]) = 16 /\ a[1].data = <<src.a4, src.a12>>
         ELSE /\ a = <<>>
              /\ sent[1].frh.src_len = 0

\* A request with the 16 bytes of an IPv6 src.
C14_Witness ==
    /\ IsSync
    /\ IS_RULE_FILTERING_ON_SRC_IP(arg_rule)
    /\ arg_rule.filter.src_ip.family = AF_INET6
    /\ Len(AttrsOfType(sent[1], FRA_SRC)) = 1
    /\ PayloadLen(AttrsOfType(sent[1], FRA_SRC)[1]) = 16
    /\ sent[1].frh.src_len = 64

\* C16: handling a notification never sends an install or uninstall request
\* and never reports a status; an install or uninstall sends its request
\* once, and when the kernel round trip fails it reports the failure once and
\* does not send the request again.
C16_NoResend ==
    /\ IsChange => sent = <<>> /\ cb_status = <<>>
    /\ IsSync =>
         /\ Len(sent) = 1
         /\ Len(cb_status) = 1
         /\ ret # 0 => cb_status[1].status \in
                         {SOUTHBOUND_INSTALL_FAILURE, SOUTHBOUND_DELETE_FAILURE}

\* A delete notification reached kernel_pbr_rule_del and nothing was sent.
C16_Witness ==
    /\ IsChange
    /\ Len(cb_del) = 1
    /\ sent = <<>>
    /\ cb_status = <<>>

(***************************************************************************)
(* Properties of the decoder and of the round trip.                        *)
(***************************************************************************)
\* The attribute of type t in notification h, NoAttr when there is none.
AttrOf(h, t) ==
    IF AttrsOfType(h, t) = <<>> THEN NoAttr ELSE AttrsOfType(h, t)[1]

\* The notification handled is the request of the uninstall made just before.
IsEcho == op = "kernel_del_pbr_rule" /\ IsChange' /\ arg_h' = sent[1]

\* The decoded rule's table is the TABLE attribute's value, or the header's
\* table byte when the notification has no TABLE attribute.
DecodedTableFromMsg ==
    (IsChange /\ Len(cb_del) = 1) =>
      cb_del[1].action.table =
        (IF AttrOf(arg_h, FRA_TABLE) # NoAttr
         THEN AttrOf(arg_h, FRA_TABLE).data[1]
         ELSE arg_h.frh.table)

\* C17: the rule handed to kernel_pbr_rule_del has the table of the TABLE
\* attribute when the notification carries one and the header's table byte
\* otherwise; and when the notification is the request an uninstall encoded,
\* that table is the table id of the rule uninstalled, below 256 or not.
C17_TableRoundTrip ==
    [][ /\ DecodedTableFromMsg'
        /\ (IsEcho /\ Len(cb_del') = 1) =>
              cb_del'[1].action.table = arg_rule.action.table
      ]_vars

\* An uninstall request for table 1000 came back and was decoded to table
\* 1000, read from the TABLE attribute.
C17_Witness ==
    /\ IsChange
    /\ arg_h.nlmsg_flags = NLM_F_REQUEST
    /\ Len(cb_del) = 1
    /\ arg_h.frh.table = RT_TABLE_UNSPEC
    /\ AttrOf(arg_h, FRA_TABLE).data = <<1000>>
    /\ cb_del[1].action.table = 1000

\* The prefix p decoded from attribute a is complete for header family
\* family and header prefix length len.
CompletePrefix(p, a, family, len) ==
    /\ p.prefixlen = len
    /\ p.family = family
    /\ IF family = AF_INET
       THEN a.data = <<p.a4>>
       ELSE a.data = <<p.a4, p.a12>>

\* C18, as claimed: in the rule handed to kernel_pbr_rule_del, src (dst) is
\* set iff the notification carried SRC (DST), and a set prefix has the
\* attribute's payload for address, the header's src_len (dst_len) for
\* prefix length and the header's family for address family.
C18_DecodedPrefixComplete ==
    (IsChange /\ Len(cb_del) = 1) =>
      LET rule == cb_del[1]
          frh == arg_h.frh
          s == AttrOf(arg_h, FRA_SRC)
          d == AttrOf(arg_h, FRA_DST)
      IN /\ IS_RULE_FILTERING_ON_SRC_IP(rule) <=> s # NoAttr
         /\ IS_RULE_FILTERING_ON_DST_IP(rule) <=> d # NoAttr
         /\ s # NoAttr =>
              CompletePrefix(rule.filter.src_ip, s, frh.family, frh.src_len)
         /\ d # NoAttr =>
              CompletePrefix(rule.filter.dst_ip, d, frh.family, frh.dst_len)

\* The rule is one C20 speaks of: bound to an interface known in the default
\* namespace, with src set, and with dst not set or of src's family.
RoundTripRule(rule) ==
    /\ rule.ifp \in NsInterfaces(NS_DEFAULT)
    /\ IS_RULE_FILTERING_ON_SRC_IP(rule)
    /\ IS_RULE_FILTERING_ON_DST_IP(rule) =>
         rule.filter.dst_ip.family = rule.filter.src_ip.family

\* Rule got has the priority, the table and the src and dst addresses and
\* prefix lengths of rule want.
SameRuleFields(got, want) ==
    /\ got.priority = want.priority
    /\ got.action.table = want.action.table
    /\ got.filter.filter_bm = want.filter.filter_bm
    /\ got.filter.src_ip.a4 = want.filter.src_ip.a4
    /\ got.filter.src_ip.a12 = want.filter.src_ip.a12
    /\ got.filter.src_ip.prefixlen = want.filter.src_ip.prefixlen
    /\ got.filter.dst_ip.a4 = want.filter.dst_ip.a4
    /\ got.filter.dst_ip.a12 = want.filter.dst_ip.a12
    /\ got.filter.dst_ip.prefixlen = want.filter.dst_ip.prefixlen

\* C20, as claimed: when the request of an uninstall of such a rule comes
\* back as a delete notification in the rule's namespace, it passes every
\* filter and kernel_pbr_rule_del is called with a rule of the same priority,
\* table id, src and dst addresses and prefix lengths.
C20_DeleteRoundTrip ==
    [][ (IsEcho /\ RoundTripRule(arg_rule) /\ arg_ns' = NS_DEFAULT) =>
          /\ PassesFilters(arg_h', arg_ns')
          /\ Len(cb_del') = 1
          /\ SameRuleFields(cb_del'[1], arg_rule)
      ]_vars

\* The same round trip, for the calls the process survives.
RoundTripIfAlive ==
    [][ (IsEcho /\ RoundTripRule(arg_rule) /\ arg_ns' = NS_DEFAULT /\ ~crashed') =>
          /\ PassesFilters(arg_h', arg_ns')
          /\ Len(cb_del') = 1
          /\ SameRuleFields(cb_del'[1], arg_rule)
      ]_vars

(***************************************************************************)
(* Properties of the channel.                                              *)
(***************************************************************************)
\* At most one request is unanswered; while the thread is blocked that
\* request is the one of the call in progress and no status has been
\* reported for it; a status is reported only with nothing unanswered.
OneInFlight ==
    /\ Len(in_flight) <= 1
    /\ pc # "idle" => IsSync /\ Len(sent) = 1 /\ cb_status = <<>>
    /\ pc = "talk" => in_flight = sent
    /\ pc = "reply" => in_flight = <<>>
    /\ cb_status # <<>> => in_flight = <<>> /\ pc = "idle"

\* C15: installs and uninstalls on the channel are strictly serialized: at
\* most one request is in flight, the status callback of a call is made only
\* after the kernel's answer to that call's request has arrived, and a
\* request is put on the channel only when the call before it has reported
\* its status and nothing is unanswered.
C15_Serialized ==
    [][ /\ OneInFlight'
        /\ in_flight' # in_flight /\ in_flight' # <<>> =>
             /\ in_flight = <<>>
             /\ pc = "idle"
             /\ IsSync => Len(cb_status) = 1
        /\ cb_status' # cb_status /\ cb_status' # <<>> =>
             /\ pc = "reply"
             /\ in_flight = <<>>
             /\ cb_status'[1].rule = arg_rule
      ]_vars

\* An uninstall is blocked in netlink_talk with its request in flight, the
\* status not yet reported.
C15_Witness ==
    /\ op = "kernel_del_pbr_rule"
    /\ pc = "talk"
    /\ Len(in_flight) = 1
    /\ in_flight = sent
    /\ cb_status = <<>>

(***************************************************************************)
(* Properties of rules with a src and a dst of different families.         *)
(***************************************************************************)
\* The rule has src and dst set, of different address families.
MixedFamilies(rule) ==
    /\ IS_RULE_FILTERING_ON_SRC_IP(rule)
    /\ IS_RULE_FILTERING_ON_DST_IP(rule)
    /\ rule.filter.src_ip.family # rule.filter.dst_ip.family

\* C19, as claimed, at the encoder: for a rule whose src and dst are of
\* different families no request is sent that has one family in the header
\* and bytes of the other family's prefix in the DST attribute.
C19_MixedFamilyRejected ==
    (IsSync /\ MixedFamilies(arg_rule)) =>
      \/ sent = <<>>
      \/ AttrsOfType(sent[1], FRA_DST) = <<>>
      \/ sent[1].frh.family = arg_rule.filter.dst_ip.family

\* C19, as claimed, at the vty: no sequence of match commands leaves the
\* pbr-map sequence with a src and a dst of different families. It does not
\* hold in SpecVty: 'match src-ip 10.0.0.0/24' then
\* 'match dst-ip 2001:db8::1/64' both return CMD_SUCCESS and leave both.
MixedFamilyNotConfigured ==
    (pbrms.src # <<>> /\ pbrms.dst # <<>>) =>
      pbrms.src[1].family = pbrms.dst[1].family

(***************************************************************************)
(* Properties of pbr-policy.                                               *)
(***************************************************************************)
\* The pbr-maps that have interface ifp on their list, among the lists inc.
AttachedIn(inc, ifp) == {pbrm \in PbrMaps : ifp \in inc[pbrm]}

\* The pbr-maps that have interface ifp on their list.
Attached(ifp) == AttachedIn(incoming, ifp)

\* Every interface is on the list of no pbr-map but the one its mapname
\* names, hence of one at most.
AttachedToNamedOnly ==
    \A ifp \in VtyInterfaces :
       /\ Attached(ifp) \subseteq {pbr_ifp[ifp]}
       /\ Cardinality(Attached(ifp)) <= 1

\* C21: after any sequence of 'pbr-policy NAME' and 'no pbr-policy NAME'
\* every interface is attached to at most one pbr-map, and only to the one
\* its current mapname names. Binding to a name detaches the interface from
\* the pbr-map bound before and attaches it to the one named; the name
\* already bound changes nothing; 'no pbr-policy' with the bound name
\* detaches and clears the name, with another name it changes nothing; and
\* no command touches another interface.
C21_PolicyBinding ==
    [][ LET i == vty_ifp'
            n == vty_name'
            no == vty_cmd'.no
        IN /\ AttachedToNamedOnly'
           /\ vty_cmd'.name = "pbr-policy"
           /\ \A j \in VtyInterfaces \ {i} :
                 pbr_ifp'[j] = pbr_ifp[j] /\ AttachedIn(incoming', j) = Attached(j)
           /\ (~no /\ pbr_ifp[i] # n) =>
                 pbr_ifp'[i] = n /\ AttachedIn(incoming', i) = {n} \cap PbrMaps
           /\ (~no /\ pbr_ifp[i] = n) => UNCHANGED policy_vars
           /\ (no /\ pbr_ifp[i] = n) =>
                 pbr_ifp'[i] = "" /\ AttachedIn(incoming', i) = {}
           /\ (no /\ pbr_ifp[i] # n) => UNCHANGED policy_vars
      ]_vars

\* Both interfaces have been bound, eth0 to MAP-B and eth1 to MAP-A, and
\* each is on the list of its own pbr-map only.
C21_Witness ==
    /\ vty_cmd.name = "pbr-policy"
    /\ pbr_ifp["eth0"] = "MAP-B"
    /\ pbr_ifp["eth1"] = "MAP-A"
    /\ incoming["MAP-B"] = {"eth0"}
    /\ incoming["MAP-A"] = {"eth1"}

(***************************************************************************)
(* Properties of set nexthop-group and set nexthop.                        *)
(***************************************************************************)
\* The nexthop configuration of a sequence.
NexthopConfig(seq) == <<seq.nhgrp_name, seq.nhg>>

\* C22: after any sequence of 'set nexthop-group' and 'set nexthop' commands
\* and their 'no' forms, the pbr-map sequence never has both a nexthop-group
\* name and an individual nexthop; 'set nexthop-group' entered while an
\* individual nexthop is set, and 'set nexthop' entered while a
\* nexthop-group name is set, return CMD_WARNING_CONFIG_FAILED and leave the
\* nexthop configuration as it was.
C22_GroupOrNexthop ==
    [][ /\ ~(pbrms'.nhgrp_name # <<>> /\ pbrms'.nhg # <<>>)
        /\ (vty_cmd'.name = "set nexthop-group" /\ pbrms.nhg # <<>>) =>
              /\ vty_ret' = CMD_WARNING_CONFIG_FAILED
              /\ NexthopConfig(pbrms') = NexthopConfig(pbrms)
        /\ (vty_cmd'.name = "set nexthop" /\ pbrms.nhgrp_name # <<>>) =>
              /\ vty_ret' = CMD_WARNING_CONFIG_FAILED
              /\ NexthopConfig(pbrms') = NexthopConfig(pbrms)
      ]_vars

\* 'set nexthop-group' was entered on a sequence with an individual nexthop
\* and was rejected.
C22_Witness ==
    /\ vty_cmd = Command("set nexthop-group", FALSE, ZeroPrefix)
    /\ vty_ret = CMD_WARNING_CONFIG_FAILED
    /\ pbrms.nhgrp_name = <<>>
    /\ pbrms.nhg # <<>>
    /\ Len(pbrms.nhg[1].nexthop) = 1

====
